---- MODULE Spec2Model ----
(***************************************************************************)
(* Sub-step canvas of the task detail modal.                               *)
(*                                                                         *)
(* The repository holds two versions of the TaskDetailModal component:     *)
(*   "modal"  = src/components/TaskDetailModal.tsx (flow canvas with       *)
(*              connectors, HTML5 drag and drop, auto-saving effect)       *)
(*   "legacy" = src/unnamed/part_000 (Save/Cancel footer, SubStepCard      *)
(*              dragged by mouse move)                                     *)
(* The variable `variant` says which of the two is mounted.                *)
(*                                                                         *)
(* Every handler runs against the state of the latest render (React        *)
(* commits discrete events before the next one is dispatched), so a        *)
(* handler is one atomic action.  An absent optional array                 *)
(* (nextSubStepIds, actionItems) is the empty sequence: the code reads     *)
(* both through `|| []` / `?.`.                                            *)
(***************************************************************************)
EXTENDS Integers, Sequences, FiniteSets, TLC

VARIABLES
    variant,                \* which component file is mounted
    canEdit,                \* prop canEdit
    canvasSize,             \* details.subStepCanvasSize: <<>> when absent, else <<size>>
    subSteps,               \* details.subSteps
    idCounter,              \* next value of generateUniqueId
    connectingState,        \* modal: <<>> (null) or <<[fromId, fromPos]>>
    draggedSubStepId,       \* modal: draggedSubStepIdRef.current (NoId = null)
    isDragging,             \* legacy: id of the SubStepCard with isDragging, or NoId
    isGeneratingProposals,
    isProposalModalOpen,    \* modal: isProposalModalOpen, legacy: showProposalReview
    error,                  \* modal: error, legacy: proposalError
    lastOp,                 \* history: the handler that ran last and its arguments
    opCount,                \* history: number of handlers run since mount
    maximizedPanel,         \* modal: maximizedPanel ("null" when none)
    subStepCardRefs,        \* modal: the keys of the subStepCardRefs map
    connectors,             \* modal: connectors
    timers,                 \* modal: pending setTimeout(calculateConnectors) calls
    saved,                  \* <<>>, or <<the last arguments of onUpdateTask>>
    updateCalls,            \* history: number of onUpdateTask calls since mount
    selectedSubStep,        \* modal: selectedSubStep, <<>> (null) or <<a node>>
    pendingReads,           \* modal: FileReader loads in flight (onload closures)
    dragSession,            \* the card whose HTML5 drag is in progress, or NoId
    closed                  \* history: onClose has been called

\* the flow canvas state of TaskDetailModal.tsx and the persistence callback
fxVars == <<maximizedPanel, subStepCardRefs, connectors, timers, saved, updateCalls>>

\* the selection, the file reads, the browser's drag and the onClose callback
uiVars == <<selectedSubStep, pendingReads, dragSession, closed>>

vars == <<variant, canEdit, canvasSize, subSteps, idCounter, connectingState,
          draggedSubStepId, isDragging, isGeneratingProposals,
          isProposalModalOpen, error, lastOp, opCount,
          maximizedPanel, subStepCardRefs, connectors, timers, saved,
          updateCalls, selectedSubStep, pendingReads, dragSession, closed>>

NoId == 0                   \* null / undefined where an id is expected
NoError == "null"
Undefined == "undefined"    \* an absent optional string field

\* ---------------------------------------------------------------- bounds
MaxOps == 4                 \* handlers run in one behaviour
MaxLayoutNodes == 4         \* nodes of a task handed to auto-layout alone

\* ------------------------------------------------------- program constants
CARD_WIDTH == 200
CARD_HEIGHT == 120
HORIZONTAL_SPACING == 250
VERTICAL_SPACING == 150
PADDING == 20
MARGIN == 50
COLUMNS == 3
ADD_ORIGIN == 50
ADD_SPACING_MODAL == 220
ADD_SPACING_LEGACY == 250
DEFAULT_CANVAS_WIDTH == 1200
DEFAULT_CANVAS_HEIGHT == 800

Max(a, b) == IF a >= b THEN a ELSE b
Min(a, b) == IF a <= b THEN a ELSE b

Pos(px, py) == [x |-> px, y |-> py]
Size(w, h) == [width |-> w, height |-> h]

\* ------------------------------------------------------------ input sets
\* absent (the 1200 x 800 default applies), or smaller than a card
CanvasSizes == { <<>>, <<Size(100, 100)>> }
\* proposed top-left corners of a dragged card (pointer minus drag offset)
DropPoints == {Pos(9999, 9999), Pos(0 - 30, 0 - 40), Pos(300, 40)}
\* bounding boxes of the legacy canvas element (min-w 800, min-h 600)
ContainerRects == {Size(800, 600), Size(1600, 900)}
HandlePoints == {Pos(200, 60)}
NewText == "edited"
DEFAULT_TEXT == "new sub-step"

ActionItem(i, t) == [id |-> i, text |-> t, completed |-> FALSE]

SubStep(i, t, n, p, nx, ai) ==
    [id |-> i, text |-> t, notes |-> n, position |-> p,
     nextSubStepIds |-> nx, actionItems |-> ai, attachments |-> <<>>]

\* A -> B -> C, the node set of the spec's "delete cascades" example
ChainABC ==
    << SubStep(1, "A", "", Pos(0, 0), <<2>>, <<ActionItem(4, "a1")>>),
       SubStep(2, "B", "", Pos(300, 0), <<3>>, <<>>),
       SubStep(3, "C", "", Pos(0, 200), <<>>, <<>>) >>

InitialSubSteps == { <<>>, ChainABC }

\* A -> B with a second edge of A to a node that is no longer there (a task
\* saved by part_000 after the removal of a node)
StaleAB ==
    << SubStep(1, "A", "", Pos(0, 0), <<2, 99>>, <<>>),
       SubStep(2, "B", "", Pos(300, 0), <<>>, <<>>) >>
\* generateUniqueId never repeats a value: ids are handed out in increasing
\* order, starting above those of the initial task
FirstFreshId == Len(ChainABC) + Len(ChainABC[1].actionItems) + 1

\* ---------------------------------------------------------------- helpers
Ids(nodes) == { nodes[i].id : i \in 1..Len(nodes) }

IndexOf(nodes, id) ==
    IF id \in Ids(nodes)
    THEN CHOOSE i \in 1..Len(nodes) :
            nodes[i].id = id /\ \A j \in 1..(i - 1) : nodes[j].id # id
    ELSE 0

\* Array.from(new Set(s)): first occurrences, in order
Dedup(s) ==
    LET F[i \in 0..Len(s)] ==
            IF i = 0 THEN <<>>
            ELSE IF \E j \in 1..(i - 1) : s[j] = s[i]
                 THEN F[i - 1]
                 ELSE Append(F[i - 1], s[i])
    IN F[Len(s)]

\* extendedDetails.subStepCanvasSize || { width: 1200, height: 800 }
DeclaredCanvas(cs) ==
    IF cs = <<>>
    THEN Size(DEFAULT_CANVAS_WIDTH, DEFAULT_CANVAS_HEIGHT)
    ELSE cs[1]

Op(name, a, b, p) == [op |-> name, a |-> a, b |-> b, p |-> p]
NoPos == Pos(0, 0)

\* ==================================================================
\* TaskDetailModal.tsx: the transformations of extendedDetails.subSteps
\* ==================================================================

\* mutant: the 1-based position is used where the code has the 0-based index
AutoLayoutSubStepsResult_offByOne(nodes) ==
    [i \in 1..Len(nodes) |->
        [nodes[i] EXCEPT !.position =
            Pos(PADDING + (i % COLUMNS) * HORIZONTAL_SPACING,
                PADDING + (i \div COLUMNS) * VERTICAL_SPACING)]]

\* mutant: the grid offset is added to the position the node has
AutoLayoutSubStepsResult_relative(nodes) ==
    [i \in 1..Len(nodes) |->
        [nodes[i] EXCEPT !.position =
            Pos(@.x + PADDING + ((i - 1) % COLUMNS) * HORIZONTAL_SPACING,
                @.y + PADDING + ((i - 1) \div COLUMNS) * VERTICAL_SPACING)]]

\* handleAutoLayoutSubSteps, lines 153-159 (index is 0-based in the code)
AutoLayoutSubStepsResult(nodes) ==
    [i \in 1..Len(nodes) |->
        [nodes[i] EXCEPT !.position =
            Pos(PADDING + ((i - 1) % COLUMNS) * HORIZONTAL_SPACING,
                PADDING + ((i - 1) \div COLUMNS) * VERTICAL_SPACING)]]

\* handleSubStepDrop, lines 205-207
ClampToCanvas(p, cs) ==
    Pos(Max(0, Min(p.x, DeclaredCanvas(cs).width - CARD_WIDTH)),
        Max(0, Min(p.y, DeclaredCanvas(cs).height - CARD_HEIGHT)))

\* mutant: the moved node is rebuilt without its edges
SubStepDropResult_dropsEdges(nodes, dragged, p, cs) ==
    [i \in 1..Len(nodes) |->
        IF nodes[i].id = dragged
        THEN [nodes[i] EXCEPT !.position = ClampToCanvas(p, cs),
                              !.nextSubStepIds = <<>>]
        ELSE nodes[i]]

\* handleSubStepDrop, lines 209-213
SubStepDropResult(nodes, dragged, p, cs) ==
    [i \in 1..Len(nodes) |->
        IF nodes[i].id = dragged
        THEN [nodes[i] EXCEPT !.position = ClampToCanvas(p, cs)]
        ELSE nodes[i]]

\* mutant: the target is appended without the Set
EndConnectionResult_append(nodes, fromId, targetSubStepId) ==
    [i \in 1..Len(nodes) |->
        IF nodes[i].id = fromId
        THEN [nodes[i] EXCEPT !.nextSubStepIds = Append(@, targetSubStepId)]
        ELSE nodes[i]]

\* handleEndConnection, lines 236-242
EndConnectionResult(nodes, fromId, targetSubStepId) ==
    [i \in 1..Len(nodes) |->
        IF nodes[i].id = fromId
        THEN [nodes[i] EXCEPT !.nextSubStepIds =
                Dedup(Append(nodes[i].nextSubStepIds, targetSubStepId))]
        ELSE nodes[i]]

\* mutant: the target is filtered out of every node, not only the source
DeleteConnectionResult_everyNode(nodes, sourceSubStepId, targetSubStepId) ==
    [i \in 1..Len(nodes) |->
        [nodes[i] EXCEPT !.nextSubStepIds =
            SelectSeq(@, LAMBDA id : id # targetSubStepId)]]

\* handleDeleteConnection, lines 250-256
DeleteConnectionResult(nodes, sourceSubStepId, targetSubStepId) ==
    [i \in 1..Len(nodes) |->
        IF nodes[i].id = sourceSubStepId
        THEN [nodes[i] EXCEPT !.nextSubStepIds =
                SelectSeq(nodes[i].nextSubStepIds,
                          LAMBDA id : id # targetSubStepId)]
        ELSE nodes[i]]

\* handleRemoveSubStep, lines 351-355
RemoveSubStepResult(nodes, subStepId) ==
    LET updatedSubSteps == SelectSeq(nodes, LAMBDA ss : ss.id # subStepId)
    IN [i \in 1..Len(updatedSubSteps) |->
            [updatedSubSteps[i] EXCEPT !.nextSubStepIds =
                SelectSeq(updatedSubSteps[i].nextSubStepIds,
                          LAMBDA id : id # subStepId)]]

\* { ...ss, ...updates }: the fields of updates override those of ss
Merge(ss, updates) ==
    [f \in DOMAIN ss |-> IF f \in DOMAIN updates THEN updates[f] ELSE ss[f]]

\* handleUpdateSubStep, lines 365-367
UpdateSubStepResult(nodes, subStepId, updates) ==
    [i \in 1..Len(nodes) |->
        IF nodes[i].id = subStepId THEN Merge(nodes[i], updates) ELSE nodes[i]]

\* mutant: the new node is counted in the x coordinate
AddSubStepResult_countsNew(nodes, newId) ==
    Append(nodes,
           SubStep(newId, DEFAULT_TEXT, "",
                   Pos(ADD_ORIGIN + (Len(nodes) + 1) * ADD_SPACING_MODAL, ADD_ORIGIN),
                   <<>>, <<>>))

\* handleAddSubStep, lines 335-345
AddSubStepResult(nodes, newId) ==
    Append(nodes,
           SubStep(newId, DEFAULT_TEXT, "",
                   Pos(ADD_ORIGIN + Len(nodes) * ADD_SPACING_MODAL, ADD_ORIGIN),
                   <<>>, <<>>))

\* mutant: every proposal of one merge gets the same id
PushProposals_sameId(nodes, newSubSteps, firstId) ==
    nodes \o [k \in 1..Len(newSubSteps) |->
                SubStep(firstId, newSubSteps[k].title, newSubSteps[k].description,
                        Pos(ADD_ORIGIN + (Len(nodes) + 2 * (k - 1)) * ADD_SPACING_MODAL,
                            ADD_ORIGIN),
                        <<>>, <<>>)]

\* handleConfirmProposals, lines 301-315: updatedSubSteps grows while the
\* loop runs, and the x coordinate adds the 0-based index to its length
PushProposals(nodes, newSubSteps, firstId) ==
    LET F[k \in 0..Len(newSubSteps)] ==
            IF k = 0 THEN nodes
            ELSE Append(F[k - 1],
                        SubStep(firstId + k - 1,
                                newSubSteps[k].title,
                                newSubSteps[k].description,
                                Pos(ADD_ORIGIN
                                    + (Len(F[k - 1]) + (k - 1)) * ADD_SPACING_MODAL,
                                    ADD_ORIGIN),
                                <<>>, <<>>))
    IN F[Len(newSubSteps)]

\* mutant: the new action item is put in front of those of the node
PushActionItems_inFront(nodes, newActionItems, firstId) ==
    LET F[k \in 0..Len(newActionItems)] ==
            IF k = 0 THEN [nodes |-> nodes, nextId |-> firstId]
            ELSE LET prev == F[k - 1]
                     targetIndex == IndexOf(prev.nodes,
                                            newActionItems[k].targetSubStepId)
                 IN IF targetIndex # 0
                    THEN [nodes |->
                            [prev.nodes EXCEPT ![targetIndex].actionItems =
                                << ActionItem(prev.nextId,
                                              newActionItems[k].title) >> \o @],
                          nextId |-> prev.nextId + 1]
                    ELSE prev
    IN F[Len(newActionItems)]

\* handleConfirmProposals, lines 317-327: one generateUniqueId call per
\* child spec that resolves; returns the nodes and the next unused id
PushActionItems(nodes, newActionItems, firstId) ==
    LET F[k \in 0..Len(newActionItems)] ==
            IF k = 0 THEN [nodes |-> nodes, nextId |-> firstId]
            ELSE LET prev == F[k - 1]
                     targetIndex == IndexOf(prev.nodes,
                                            newActionItems[k].targetSubStepId)
                 IN IF targetIndex # 0
                    THEN [nodes |->
                            [prev.nodes EXCEPT ![targetIndex].actionItems =
                                Append(@, ActionItem(prev.nextId,
                                                     newActionItems[k].title))],
                          nextId |-> prev.nextId + 1]
                    ELSE prev
    IN F[Len(newActionItems)]

ConfirmProposalsResult(nodes, additions, firstId) ==
    PushActionItems(PushProposals(nodes, additions.newSubSteps, firstId),
                    additions.newActionItems,
                    firstId + Len(additions.newSubSteps))

DEFAULT_ITEM_TEXT == "new action item"

\* handleAddActionItem, lines 377-387
AddActionItemResult(nodes, subStepId, newId) ==
    [i \in 1..Len(nodes) |->
        IF nodes[i].id = subStepId
        THEN [nodes[i] EXCEPT !.actionItems =
                Append(nodes[i].actionItems, ActionItem(newId, DEFAULT_ITEM_TEXT))]
        ELSE nodes[i]]

\* handleUpdateActionItem, lines 393-402
UpdateActionItemResult(nodes, subStepId, actionItemId, updates) ==
    [i \in 1..Len(nodes) |->
        IF nodes[i].id = subStepId
        THEN [nodes[i] EXCEPT !.actionItems =
                [k \in 1..Len(nodes[i].actionItems) |->
                    IF nodes[i].actionItems[k].id = actionItemId
                    THEN Merge(nodes[i].actionItems[k], updates)
                    ELSE nodes[i].actionItems[k]]]
        ELSE nodes[i]]

\* handleRemoveActionItem, lines 409-413
RemoveActionItemResult(nodes, subStepId, actionItemId) ==
    [i \in 1..Len(nodes) |->
        IF nodes[i].id = subStepId
        THEN [nodes[i] EXCEPT !.actionItems =
                SelectSeq(nodes[i].actionItems, LAMBDA ai : ai.id # actionItemId)]
        ELSE nodes[i]]

\* handleSubStepFileChange, lines 450-455 (type and dataUrl left out)
Attachment(i) == [id |-> i, name |-> "file.name"]

\* a FileReader whose load has not completed: its onload (lines 448-460)
\* closes over the selectedSubStep and, through handleUpdateSubStep, over the
\* extendedDetails.subSteps of the render in which the file was chosen
PendingRead(selected, nodes) == [selectedSubStep |-> selected, subSteps |-> nodes]

\* `conn-${sourceSubStep.id}-${targetId}`, line 132
ConnectorId(sourceId, targetId) == <<"conn-", sourceId, "-", targetId>>

\* mutant: the connector ends at the top-left corner of the target card
Connector_topLeft(sourceSubStep, targetSubStep, targetId) ==
    [id |-> ConnectorId(sourceSubStep.id, targetId),
     from |-> Pos(sourceSubStep.position.x + CARD_WIDTH,
                  sourceSubStep.position.y + CARD_HEIGHT \div 2),
     to |-> Pos(targetSubStep.position.x, targetSubStep.position.y),
     sourceId |-> sourceSubStep.id,
     targetId |-> targetId]

\* calculateConnectors, lines 111-137: the connector pushed for one edge
Connector(sourceSubStep, targetSubStep, targetId) ==
    [id |-> ConnectorId(sourceSubStep.id, targetId),
     from |-> Pos(sourceSubStep.position.x + CARD_WIDTH,
                  sourceSubStep.position.y + CARD_HEIGHT \div 2),
     to |-> Pos(targetSubStep.position.x,
                targetSubStep.position.y + CARD_HEIGHT \div 2),
     sourceId |-> sourceSubStep.id,
     targetId |-> targetId]

\* mutant: a target that is not found is taken to be the source itself
ConnectorsFrom_noFind(nodes, sourceSubStep) ==
    [k \in 1..Len(sourceSubStep.nextSubStepIds) |->
        LET targetId == sourceSubStep.nextSubStepIds[k]
            targetIndex == IndexOf(nodes, targetId)
        IN Connector(sourceSubStep,
                     IF targetIndex = 0 THEN sourceSubStep ELSE nodes[targetIndex],
                     targetId)]

\* calculateConnectors, lines 119-138: the connectors of one source node
\* (find returns the first node with the id, or nothing)
ConnectorsFrom(nodes, sourceSubStep) ==
    LET next == sourceSubStep.nextSubStepIds
        F[k \in 0..Len(next)] ==
            IF k = 0 THEN <<>>
            ELSE LET targetIndex == IndexOf(nodes, next[k])
                 IN IF targetIndex = 0
                    THEN F[k - 1]
                    ELSE Append(F[k - 1],
                                Connector(sourceSubStep, nodes[targetIndex], next[k]))
    IN F[Len(next)]

\* calculateConnectors, lines 105-141: newConnectors
NewConnectors(nodes) ==
    LET F[i \in 0..Len(nodes)] ==
            IF i = 0 THEN <<>>
            ELSE F[i - 1] \o ConnectorsFrom(nodes, nodes[i])
    IN F[Len(nodes)]

\* calculateConnectors, lines 99-142: the value given to setConnectors.
\* nodes and refsSize are those of the render that made the callback,
\* mounted is flowContainerRef.current at the time of the call
calculateConnectors(nodes, refsSize, mounted) ==
    IF ~mounted \/ refsSize = 0 THEN <<>> ELSE NewConnectors(nodes)

\* the part of extendedDetails the model holds
Details(nodes, cs) == [subSteps |-> nodes, subStepCanvasSize |-> cs]

TaskId == "task.id"

\* saveChanges, lines 276-278: the arguments of onUpdateTask
saveChanges(details) == << [taskId |-> TaskId, updates |-> details] >>

\* a pending setTimeout(calculateConnectors, delay) and what the callback
\* closes over
Timer(delay, nodes, refs) ==
    [delay |-> delay, subSteps |-> nodes, refsSize |-> Cardinality(refs)]

EFFECT_DELAY == 50
DROP_DELAY == 0

\* lines 171-174: the cleanup clears the timer of the previous render and the
\* effect sets one for the calculateConnectors of this render
Rescheduled(ts, nodes) ==
    SelectSeq(ts, LAMBDA t : t.delay # EFFECT_DELAY)
        \o << Timer(EFFECT_DELAY, nodes, Ids(nodes)) >>

\* the flow canvas is rendered in the three-column grid and when the
\* sub-steps panel is maximized (lines 1196-1250)
FlowMounted == maximizedPanel \in {"null", "substeps"}

\* ==================================================================
\* part_000: the transformations of details.subSteps
\* ==================================================================

\* mutant: the rows are one card height less than VERTICAL_SPACING apart
legacy_AutoLayoutResult_rowStep(nodes) ==
    [i \in 1..Len(nodes) |->
        [nodes[i] EXCEPT !.position =
            Pos(MARGIN + ((i - 1) % COLUMNS) * HORIZONTAL_SPACING,
                MARGIN + ((i - 1) \div COLUMNS) * (VERTICAL_SPACING - MARGIN))]]

\* handleAutoLayout, lines 69-75
legacy_AutoLayoutResult(nodes) ==
    [i \in 1..Len(nodes) |->
        [nodes[i] EXCEPT !.position =
            Pos(MARGIN + ((i - 1) % COLUMNS) * HORIZONTAL_SPACING,
                MARGIN + ((i - 1) \div COLUMNS) * VERTICAL_SPACING)]]

\* addSubStep, lines 130-136 (the new node has no notes field)
legacy_addSubStepResult(nodes, newId) ==
    Append(nodes,
           SubStep(newId, DEFAULT_TEXT, Undefined,
                   Pos(ADD_ORIGIN + Len(nodes) * ADD_SPACING_LEGACY, ADD_ORIGIN),
                   <<>>, <<>>))

\* updateSubStep, lines 142-145
legacy_updateSubStepResult(nodes, subStepId, updates) ==
    [i \in 1..Len(nodes) |->
        IF nodes[i].id = subStepId THEN Merge(nodes[i], updates) ELSE nodes[i]]

\* removeSubStep, lines 151-154
legacy_removeSubStepResult(nodes, subStepId) ==
    SelectSeq(nodes, LAMBDA ss : ss.id # subStepId)

\* SubStepCard.handleMouseMove, lines 598-601: clamped by the bounding box
\* of the canvas element, not by details.subStepCanvasSize
ClampToContainer(p, containerRect) ==
    Pos(Max(0, Min(p.x, containerRect.width - CARD_WIDTH)),
        Max(0, Min(p.y, containerRect.height - CARD_HEIGHT)))

\* mutant: the description of the proposal is dropped
legacy_NewSubSteps_noNotes(nodes, newSubSteps, firstId) ==
    [k \in 1..Len(newSubSteps) |->
        SubStep(firstId + k - 1, newSubSteps[k].title, "",
                Pos(ADD_ORIGIN + Len(nodes) * ADD_SPACING_LEGACY, ADD_ORIGIN),
                <<>>, <<>>)]

\* handleConfirmProposals, lines 102-108: every new node gets the same x
legacy_NewSubSteps(nodes, newSubSteps, firstId) ==
    [k \in 1..Len(newSubSteps) |->
        SubStep(firstId + k - 1, newSubSteps[k].title, newSubSteps[k].description,
                Pos(ADD_ORIGIN + Len(nodes) * ADD_SPACING_LEGACY, ADD_ORIGIN),
                <<>>, <<>>)]

\* the ids of the items of newActionItems, taken from firstId on
ItemsFrom(specs, firstId) ==
    [k \in 1..Len(specs) |-> ActionItem(firstId + k - 1, specs[k].title)]

\* handleConfirmProposals, lines 110-121
legacy_ConfirmProposalsResult(nodes, additions, firstId) ==
    LET all == nodes \o legacy_NewSubSteps(nodes, additions.newSubSteps, firstId)
        For(i) == SelectSeq(additions.newActionItems,
                            LAMBDA item : item.targetSubStepId = all[i].id)
        F[i \in 0..Len(all)] ==
            IF i = 0
            THEN [nodes |-> <<>>, nextId |-> firstId + Len(additions.newSubSteps)]
            ELSE LET prev == F[i - 1]
                 IN [nodes |->
                        Append(prev.nodes,
                               [all[i] EXCEPT !.actionItems =
                                    @ \o ItemsFrom(For(i), prev.nextId)]),
                     nextId |-> prev.nextId + Len(For(i))]
    IN F[Len(all)]

\* ==================================================================
\* State machine
\* ==================================================================
Variants == {"modal", "legacy"}

ProposalChoices ==
    { <<>>,
      << [title |-> "T", description |-> "D"] >>,
      << [title |-> "T", description |-> "D"],
         [title |-> "T2", description |-> "D2"] >> }

\* child specs chosen in the review modal; 99 names no node
ChildChoices ==
    { <<>>,
      << [targetSubStepId |-> 1, title |-> "c1"] >>,
      << [targetSubStepId |-> 99, title |-> "c2"] >>,
      \* two for one node, and one for the first node the merge itself adds
      \* to an unedited task
      << [targetSubStepId |-> 1, title |-> "c1"],
         [targetSubStepId |-> FirstFreshId, title |-> "c4"],
         [targetSubStepId |-> 1, title |-> "c3"] >> }

\* the state after mount, for a task whose canvas size is one of sizes and
\* whose sub-steps are one of nodeSets
InitTask(sizes, nodeSets) ==
    /\ variant \in Variants
    /\ canEdit \in BOOLEAN
    \* part_000 line 43 fills in the default canvas size at mount
    /\ canvasSize \in IF variant = "legacy"
                       THEN { << DeclaredCanvas(c) >> : c \in sizes }
                       ELSE sizes
    /\ subSteps \in nodeSets
    /\ idCounter = FirstFreshId
    /\ connectingState = <<>>
    /\ draggedSubStepId = NoId
    /\ isDragging = NoId
    /\ isGeneratingProposals = FALSE
    /\ isProposalModalOpen = FALSE
    /\ error = NoError
    /\ lastOp = Op("init", NoId, NoId, NoPos)
    /\ opCount = 0
    /\ maximizedPanel = "null"
    /\ connectors = <<>>
    \* the effects of the mount have run
    /\ subStepCardRefs = IF variant = "modal" THEN Ids(subSteps) ELSE {}
    /\ timers = IF variant = "modal"
                THEN << Timer(EFFECT_DELAY, subSteps, Ids(subSteps)) >>
                ELSE <<>>
    /\ saved = IF variant = "modal"
               THEN saveChanges(Details(subSteps, canvasSize))
               ELSE <<>>
    /\ updateCalls = IF variant = "modal" THEN 1 ELSE 0
    /\ selectedSubStep = <<>>
    /\ pendingReads = <<>>
    /\ dragSession = NoId
    /\ closed = FALSE

\* mutant: the saveChanges effect does not run
Rendered_noSave(ts, conns) ==
    /\ subStepCardRefs' = Ids(subSteps')
    /\ timers' = Rescheduled(ts, subSteps')
    /\ connectors' = conns
    /\ UNCHANGED <<maximizedPanel, saved, updateCalls>>

\* the render that follows setExtendedDetails(... subSteps: updatedSubSteps)
\* and its effects: the card refs (lines 90-96), the connector timer (lines
\* 171-174) and saveChanges (lines 280-282).  ts and conns are the timers
\* and connectors the handler leaves behind
Rendered(ts, conns) ==
    /\ subStepCardRefs' = Ids(subSteps')
    /\ timers' = Rescheduled(ts, subSteps')
    /\ connectors' = conns
    /\ saved' = saveChanges(Details(subSteps', canvasSize))
    /\ updateCalls' = updateCalls + 1
    /\ UNCHANGED maximizedPanel

\* the same render after a handler that has called onUpdateTask itself with
\* the new details (line 167)
RenderedAfterUpdate(ts, conns) ==
    /\ subStepCardRefs' = Ids(subSteps')
    /\ timers' = Rescheduled(ts, subSteps')
    /\ connectors' = conns
    /\ saved' = saveChanges(Details(subSteps', canvasSize))
    /\ updateCalls' = updateCalls + 2
    /\ UNCHANGED maximizedPanel

\* handleEndConnection, line 231: the early return is not taken
EndConnectionUpdates(cstate, targetSubStepId, editable) ==
    /\ cstate # <<>>
    /\ cstate[1].fromId # targetSubStepId
    /\ editable

InitWith(sizes) == InitTask(sizes, InitialSubSteps)

\* ------------------------------------------------ TaskDetailModal.tsx
handleAutoLayoutSubSteps ==
    /\ variant = "modal"
    /\ subSteps' = AutoLayoutSubStepsResult(subSteps)
    /\ lastOp' = Op("autoLayout", NoId, NoId, NoPos)
    /\ opCount < MaxOps
    /\ opCount' = opCount + 1
    /\ UNCHANGED <<variant, canEdit, canvasSize, idCounter, connectingState,
                   draggedSubStepId, isDragging, isGeneratingProposals,
                   isProposalModalOpen, error>>
    /\ RenderedAfterUpdate(timers,
                calculateConnectors(subSteps, Cardinality(subStepCardRefs),
                                    FlowMounted))
    /\ UNCHANGED uiVars

handleSubStepDragStart(subStepId) ==
    /\ variant = "modal"
    /\ FlowMounted
    /\ canEdit
    /\ subStepId \in Ids(subSteps)
    /\ draggedSubStepId' = subStepId
    /\ lastOp' = Op("dragStart", subStepId, NoId, NoPos)
    /\ opCount < MaxOps
    /\ opCount' = opCount + 1
    /\ UNCHANGED <<variant, canEdit, canvasSize, subSteps, idCounter,
                   connectingState, isDragging, isGeneratingProposals,
                   isProposalModalOpen, error>>
    /\ UNCHANGED fxVars
    /\ dragSession' = subStepId
    /\ UNCHANGED <<selectedSubStep, pendingReads, closed>>

\* p is clientX/Y - containerRect.left/top - dragOffset
handleSubStepDrop(p) ==
    /\ variant = "modal"
    /\ FlowMounted
    /\ IF draggedSubStepId = NoId \/ ~canEdit
       THEN UNCHANGED <<subSteps, draggedSubStepId, fxVars>>
       ELSE /\ subSteps' = SubStepDropResult(subSteps, draggedSubStepId, p, canvasSize)
            /\ draggedSubStepId' = NoId
            \* line 217: setTimeout(calculateConnectors, 0), with the
            \* calculateConnectors of the render the handler belongs to
            /\ Rendered(Append(timers, Timer(DROP_DELAY, subSteps, subStepCardRefs)),
                        connectors)
    /\ lastOp' = Op("drop", draggedSubStepId, NoId, p)
    /\ opCount < MaxOps
    /\ opCount' = opCount + 1
    /\ UNCHANGED <<variant, canEdit, canvasSize, idCounter, connectingState,
                   isDragging, isGeneratingProposals, isProposalModalOpen, error>>
    \* the drop event ends the drag the browser had in progress
    /\ dragSession' = NoId
    /\ UNCHANGED <<selectedSubStep, pendingReads, closed>>

\* the drag of a card ends without a drop on the canvas (cancelled, or
\* released elsewhere).  The card has no onDragEnd (lines 729-741), so no
\* code runs: draggedSubStepIdRef keeps the id
SubStepDragEnd ==
    /\ variant = "modal"
    /\ dragSession # NoId
    /\ dragSession' = NoId
    /\ lastOp' = Op("dragEnd", dragSession, NoId, NoPos)
    /\ opCount < MaxOps
    /\ opCount' = opCount + 1
    /\ UNCHANGED <<variant, canEdit, canvasSize, subSteps, idCounter,
                   connectingState, draggedSubStepId, isDragging,
                   isGeneratingProposals, isProposalModalOpen, error>>
    /\ UNCHANGED fxVars
    /\ UNCHANGED <<selectedSubStep, pendingReads, closed>>

StartConnectionCall(subStepId, fromPos) ==
    /\ variant = "modal"
    /\ FlowMounted
    /\ canEdit
    /\ connectingState' = << [fromId |-> subStepId, fromPos |-> fromPos] >>
    /\ lastOp' = Op("startConnection", subStepId, NoId, fromPos)
    /\ opCount < MaxOps
    /\ opCount' = opCount + 1
    /\ UNCHANGED <<variant, canEdit, canvasSize, subSteps, idCounter,
                   draggedSubStepId, isDragging, isGeneratingProposals,
                   isProposalModalOpen, error>>
    /\ UNCHANGED fxVars
    /\ UNCHANGED uiVars

\* mutant: the fromId === targetSubStepId test is missing
EndConnectionNodes_noSelfTest(nodes, cstate, targetSubStepId, editable) ==
    IF cstate = <<>> \/ ~editable
    THEN nodes
    ELSE EndConnectionResult(nodes, cstate[1].fromId, targetSubStepId)

\* handleEndConnection, lines 230-246, as a function of the node set
EndConnectionNodes(nodes, cstate, targetSubStepId, editable) ==
    IF cstate = <<>> \/ ~editable
    THEN nodes
    ELSE IF cstate[1].fromId = targetSubStepId
         THEN nodes
         ELSE EndConnectionResult(nodes, cstate[1].fromId, targetSubStepId)

\* pointer-down on the connect handle of a rendered card
handleStartConnection(subStepId, fromPos) ==
    /\ subStepId \in Ids(subSteps)
    /\ StartConnectionCall(subStepId, fromPos)

\* handleEndConnection, lines 230-246, for any argument
EndConnectionCall(targetSubStepId) ==
    /\ variant = "modal"
    /\ subSteps' = EndConnectionNodes(subSteps, connectingState,
                                      targetSubStepId, canEdit)
    /\ connectingState' = <<>>
    /\ lastOp' = Op("endConnection",
                    IF connectingState = <<>> THEN NoId
                    ELSE connectingState[1].fromId,
                    targetSubStepId, NoPos)
    /\ opCount < MaxOps
    /\ opCount' = opCount + 1
    /\ UNCHANGED <<variant, canEdit, canvasSize, idCounter, draggedSubStepId,
                   isDragging, isGeneratingProposals, isProposalModalOpen, error>>
    /\ IF ~EndConnectionUpdates(connectingState, targetSubStepId, canEdit)
       THEN UNCHANGED fxVars
       ELSE Rendered(timers, connectors)
    /\ UNCHANGED uiVars

\* pointer-up on a rendered card: the card's onMouseUp runs
\* handleEndConnection and the event then bubbles to the canvas, whose
\* onMouseUp (handleMouseUp) finds the gesture already ended
handleEndConnection(targetSubStepId) ==
    /\ FlowMounted
    /\ targetSubStepId \in Ids(subSteps)
    /\ EndConnectionCall(targetSubStepId)

\* mutant: the pointer-up on the canvas leaves the gesture active
handleMouseUp_keepsGesture ==
    /\ variant = "modal"
    /\ FlowMounted
    /\ lastOp' = Op("mouseUp",
                    IF connectingState = <<>> THEN NoId
                    ELSE connectingState[1].fromId,
                    NoId, NoPos)
    /\ opCount < MaxOps
    /\ opCount' = opCount + 1
    /\ UNCHANGED <<variant, canEdit, canvasSize, subSteps, idCounter,
                   connectingState, draggedSubStepId, isDragging,
                   isGeneratingProposals, isProposalModalOpen, error>>
    /\ UNCHANGED fxVars
    /\ UNCHANGED uiVars

\* pointer-up on the empty canvas
handleMouseUp ==
    /\ variant = "modal"
    /\ FlowMounted
    /\ connectingState' = <<>>
    /\ lastOp' = Op("mouseUp",
                    IF connectingState = <<>> THEN NoId
                    ELSE connectingState[1].fromId,
                    NoId, NoPos)
    /\ opCount < MaxOps
    /\ opCount' = opCount + 1
    /\ UNCHANGED <<variant, canEdit, canvasSize, subSteps, idCounter,
                   draggedSubStepId, isDragging, isGeneratingProposals,
                   isProposalModalOpen, error>>
    /\ UNCHANGED fxVars
    /\ UNCHANGED uiVars

\* The delete control belongs to a rendered connector.  The connector list
\* is refreshed by a timer and may lag behind the node set, so the pair need
\* not be a current edge.
handleDeleteConnection(sourceSubStepId, targetSubStepId) ==
    /\ variant = "modal"
    /\ FlowMounted
    /\ canEdit
    /\ sourceSubStepId \in Ids(subSteps)
    /\ targetSubStepId \in Ids(subSteps)
    /\ sourceSubStepId # targetSubStepId
    /\ subSteps' = DeleteConnectionResult(subSteps, sourceSubStepId, targetSubStepId)
    /\ lastOp' = Op("deleteConnection", sourceSubStepId, targetSubStepId, NoPos)
    /\ opCount < MaxOps
    /\ opCount' = opCount + 1
    /\ UNCHANGED <<variant, canEdit, canvasSize, idCounter, connectingState,
                   draggedSubStepId, isDragging, isGeneratingProposals,
                   isProposalModalOpen, error>>
    /\ Rendered(timers, connectors)
    /\ UNCHANGED uiVars

handleAddSubStep ==
    /\ variant = "modal"
    /\ FlowMounted
    /\ canEdit
    /\ subSteps' = AddSubStepResult(subSteps, idCounter)
    /\ idCounter' = idCounter + 1
    /\ lastOp' = Op("add", idCounter, NoId, NoPos)
    /\ opCount < MaxOps
    /\ opCount' = opCount + 1
    /\ UNCHANGED <<variant, canEdit, canvasSize, connectingState,
                   draggedSubStepId, isDragging, isGeneratingProposals,
                   isProposalModalOpen, error>>
    /\ Rendered(timers, connectors)
    /\ UNCHANGED uiVars

\* the user has answered the confirm() dialog with OK
handleRemoveSubStep(subStepId) ==
    /\ variant = "modal"
    /\ FlowMounted
    /\ canEdit
    /\ subStepId \in Ids(subSteps)
    /\ subSteps' = RemoveSubStepResult(subSteps, subStepId)
    /\ lastOp' = Op("remove", subStepId, NoId, NoPos)
    /\ opCount < MaxOps
    /\ opCount' = opCount + 1
    /\ UNCHANGED <<variant, canEdit, canvasSize, idCounter, connectingState,
                   draggedSubStepId, isDragging, isGeneratingProposals,
                   isProposalModalOpen, error>>
    /\ Rendered(timers, connectors)
    \* lines 358-360
    /\ selectedSubStep' = IF selectedSubStep # <<>> /\ selectedSubStep[1].id = subStepId
                          THEN <<>> ELSE selectedSubStep
    /\ UNCHANGED <<pendingReads, dragSession, closed>>

\* the title input of the details panel
handleUpdateSubStep(subStepId) ==
    /\ variant = "modal"
    /\ FlowMounted
    /\ canEdit
    /\ subStepId \in Ids(subSteps)
    /\ subSteps' = UpdateSubStepResult(subSteps, subStepId, [text |-> NewText])
    /\ lastOp' = Op("update", subStepId, NoId, NoPos)
    /\ opCount < MaxOps
    /\ opCount' = opCount + 1
    /\ UNCHANGED <<variant, canEdit, canvasSize, idCounter, connectingState,
                   draggedSubStepId, isDragging, isGeneratingProposals,
                   isProposalModalOpen, error>>
    /\ Rendered(timers, connectors)
    \* lines 370-372
    /\ selectedSubStep' = IF selectedSubStep # <<>> /\ selectedSubStep[1].id = subStepId
                          THEN << Merge(selectedSubStep[1], [text |-> NewText]) >>
                          ELSE selectedSubStep
    /\ UNCHANGED <<pendingReads, dragSession, closed>>

\* lines 285-288 / part_000 lines 85-89, up to the await
handleGenerateProposals ==
    /\ canEdit
    \* the button is part of the sub-steps panel
    /\ variant = "modal" => FlowMounted
    /\ ~isGeneratingProposals
    /\ isGeneratingProposals' = TRUE
    /\ error' = NoError
    /\ lastOp' = Op("generate", NoId, NoId, NoPos)
    /\ opCount < MaxOps
    /\ opCount' = opCount + 1
    /\ UNCHANGED <<variant, canEdit, canvasSize, subSteps, idCounter,
                   connectingState, draggedSubStepId, isDragging,
                   isProposalModalOpen>>
    /\ UNCHANGED fxVars
    /\ UNCHANGED uiVars

\* generateStepProposals resolved: lines 291-292 and 296
ProposalsResolved ==
    /\ isGeneratingProposals
    /\ isProposalModalOpen' = TRUE
    /\ isGeneratingProposals' = FALSE
    /\ lastOp' = Op("resolved", NoId, NoId, NoPos)
    /\ opCount < MaxOps
    /\ opCount' = opCount + 1
    /\ UNCHANGED <<variant, canEdit, canvasSize, subSteps, idCounter,
                   connectingState, draggedSubStepId, isDragging, error>>
    /\ UNCHANGED fxVars
    /\ UNCHANGED uiVars

\* mutant: the review is opened for a call that failed
ProposalsRejected_opensReview ==
    /\ isGeneratingProposals
    /\ error' = "failed"
    /\ isProposalModalOpen' = TRUE
    /\ isGeneratingProposals' = FALSE
    /\ lastOp' = Op("rejected", NoId, NoId, NoPos)
    /\ opCount < MaxOps
    /\ opCount' = opCount + 1
    /\ UNCHANGED <<variant, canEdit, canvasSize, subSteps, idCounter,
                   connectingState, draggedSubStepId, isDragging>>
    /\ UNCHANGED fxVars
    /\ UNCHANGED uiVars

\* generateStepProposals rejected: lines 294 and 296
ProposalsRejected ==
    /\ isGeneratingProposals
    /\ error' = "failed"
    /\ isGeneratingProposals' = FALSE
    /\ lastOp' = Op("rejected", NoId, NoId, NoPos)
    /\ opCount < MaxOps
    /\ opCount' = opCount + 1
    /\ UNCHANGED <<variant, canEdit, canvasSize, subSteps, idCounter,
                   connectingState, draggedSubStepId, isDragging,
                   isProposalModalOpen>>
    /\ UNCHANGED fxVars
    /\ UNCHANGED uiVars

CloseProposalModal ==
    /\ isProposalModalOpen
    /\ isProposalModalOpen' = FALSE
    /\ lastOp' = Op("closeReview", NoId, NoId, NoPos)
    /\ opCount < MaxOps
    /\ opCount' = opCount + 1
    /\ UNCHANGED <<variant, canEdit, canvasSize, subSteps, idCounter,
                   connectingState, draggedSubStepId, isDragging,
                   isGeneratingProposals, error>>
    /\ UNCHANGED fxVars
    /\ UNCHANGED uiVars

handleConfirmProposals(additions) ==
    /\ variant = "modal"
    /\ isProposalModalOpen
    /\ LET r == ConfirmProposalsResult(subSteps, additions, idCounter)
       IN /\ subSteps' = r.nodes
          /\ idCounter' = r.nextId
    /\ isProposalModalOpen' = FALSE
    /\ lastOp' = Op("merge", Len(additions.newSubSteps),
                    Len(additions.newActionItems), additions)
    /\ opCount < MaxOps
    /\ opCount' = opCount + 1
    /\ UNCHANGED <<variant, canEdit, canvasSize, connectingState,
                   draggedSubStepId, isDragging, isGeneratingProposals, error>>
    /\ Rendered(timers, connectors)
    /\ UNCHANGED uiVars

\* a click on a card, line 735.  The pointer-up that precedes the click has
\* run handleEndConnection for the card, so no connect gesture is active
setSelectedSubStep(subStepId) ==
    /\ variant = "modal"
    /\ FlowMounted
    /\ connectingState = <<>>
    /\ subStepId \in Ids(subSteps)
    /\ selectedSubStep' = << subSteps[IndexOf(subSteps, subStepId)] >>
    /\ lastOp' = Op("select", subStepId, NoId, NoPos)
    /\ opCount < MaxOps
    /\ opCount' = opCount + 1
    /\ UNCHANGED <<variant, canEdit, canvasSize, subSteps, idCounter,
                   connectingState, draggedSubStepId, isDragging,
                   isGeneratingProposals, isProposalModalOpen, error>>
    /\ UNCHANGED fxVars
    /\ UNCHANGED <<pendingReads, dragSession, closed>>

\* the controls of the details panel (lines 853-1032) are rendered for the
\* selected sub-step while the sub-steps panel is on screen
DetailsPanelShown ==
    /\ variant = "modal"
    /\ FlowMounted
    /\ selectedSubStep # <<>>

\* the add button of the action items, line 969
handleAddActionItem ==
    /\ DetailsPanelShown
    /\ canEdit
    /\ subSteps' = AddActionItemResult(subSteps, selectedSubStep[1].id, idCounter)
    /\ idCounter' = idCounter + 1
    /\ lastOp' = Op("addActionItem", selectedSubStep[1].id, idCounter, NoPos)
    /\ opCount < MaxOps
    /\ opCount' = opCount + 1
    /\ UNCHANGED <<variant, canEdit, canvasSize, connectingState,
                   draggedSubStepId, isDragging, isGeneratingProposals,
                   isProposalModalOpen, error>>
    /\ Rendered(timers, connectors)
    /\ UNCHANGED uiVars

\* the checkbox of the k-th action item the panel shows, lines 982-991
handleUpdateActionItem(k) ==
    /\ DetailsPanelShown
    /\ canEdit
    /\ k \in 1..Len(selectedSubStep[1].actionItems)
    /\ LET actionItem == selectedSubStep[1].actionItems[k]
       IN /\ subSteps' = UpdateActionItemResult(subSteps, selectedSubStep[1].id,
                                actionItem.id, [completed |-> ~actionItem.completed])
          /\ lastOp' = Op("updateActionItem", selectedSubStep[1].id,
                          actionItem.id, NoPos)
    /\ opCount < MaxOps
    /\ opCount' = opCount + 1
    /\ UNCHANGED <<variant, canEdit, canvasSize, idCounter, connectingState,
                   draggedSubStepId, isDragging, isGeneratingProposals,
                   isProposalModalOpen, error>>
    /\ Rendered(timers, connectors)
    /\ UNCHANGED uiVars

\* the trash button of the k-th action item the panel shows, line 1013; the
\* user has answered the confirm() dialog with OK
handleRemoveActionItem(k) ==
    /\ DetailsPanelShown
    /\ canEdit
    /\ k \in 1..Len(selectedSubStep[1].actionItems)
    /\ LET actionItem == selectedSubStep[1].actionItems[k]
       IN /\ subSteps' = RemoveActionItemResult(subSteps, selectedSubStep[1].id,
                                                actionItem.id)
          /\ lastOp' = Op("removeActionItem", selectedSubStep[1].id,
                          actionItem.id, NoPos)
    /\ opCount < MaxOps
    /\ opCount' = opCount + 1
    /\ UNCHANGED <<variant, canEdit, canvasSize, idCounter, connectingState,
                   draggedSubStepId, isDragging, isGeneratingProposals,
                   isProposalModalOpen, error>>
    /\ Rendered(timers, connectors)
    /\ UNCHANGED uiVars

\* a file is chosen in the file input of the details panel, lines 442-463:
\* readAsDataURL starts and the handler returns
handleSubStepFileChange ==
    /\ DetailsPanelShown
    /\ canEdit
    /\ pendingReads' = Append(pendingReads,
                              PendingRead(selectedSubStep[1], subSteps))
    /\ lastOp' = Op("fileChange", selectedSubStep[1].id, NoId, NoPos)
    /\ opCount < MaxOps
    /\ opCount' = opCount + 1
    /\ UNCHANGED <<variant, canEdit, canvasSize, subSteps, idCounter,
                   connectingState, draggedSubStepId, isDragging,
                   isGeneratingProposals, isProposalModalOpen, error>>
    /\ UNCHANGED fxVars
    /\ UNCHANGED <<selectedSubStep, dragSession, closed>>

\* the k-th pending read completes with a string result: reader.onload,
\* lines 448-460, runs the handleUpdateSubStep (lines 363-373) of the render
\* in which the file was chosen.  setExtendedDetails is given the list built
\* from that render's sub-steps; setSelectedSubStep is given an updater and
\* applies the updates to the selection there is now
FileReader_onload(k) ==
    /\ variant = "modal"
    /\ canEdit
    /\ k \in 1..Len(pendingReads)
    /\ LET read == pendingReads[k]
           updates == [attachments |->
                          Append(read.selectedSubStep.attachments,
                                 Attachment(idCounter))]
       IN /\ subSteps' = UpdateSubStepResult(read.subSteps,
                                             read.selectedSubStep.id, updates)
          /\ selectedSubStep' = IF selectedSubStep = <<>> THEN <<>>
                                ELSE << Merge(selectedSubStep[1], updates) >>
          /\ lastOp' = Op("fileLoaded", read.selectedSubStep.id, idCounter, NoPos)
    /\ idCounter' = idCounter + 1
    /\ pendingReads' = [j \in 1..(Len(pendingReads) - 1) |->
                          IF j < k THEN pendingReads[j] ELSE pendingReads[j + 1]]
    /\ opCount < MaxOps
    /\ opCount' = opCount + 1
    /\ UNCHANGED <<variant, canEdit, canvasSize, connectingState,
                   draggedSubStepId, isDragging, isGeneratingProposals,
                   isProposalModalOpen, error>>
    /\ Rendered(timers, connectors)
    /\ UNCHANGED <<dragSession, closed>>

\* the trash button of the k-th attachment the panel shows, lines 473-478:
\* handleUpdateSubStep with the selection's other attachments
handleRemoveSubStepAttachment(k) ==
    /\ DetailsPanelShown
    /\ canEdit
    /\ k \in 1..Len(selectedSubStep[1].attachments)
    /\ LET attachmentId == selectedSubStep[1].attachments[k].id
           updates == [attachments |->
                          SelectSeq(selectedSubStep[1].attachments,
                                    LAMBDA att : att.id # attachmentId)]
       IN /\ subSteps' = UpdateSubStepResult(subSteps, selectedSubStep[1].id, updates)
          /\ selectedSubStep' = << Merge(selectedSubStep[1], updates) >>
          /\ lastOp' = Op("removeAttachment", selectedSubStep[1].id,
                          attachmentId, NoPos)
    /\ opCount < MaxOps
    /\ opCount' = opCount + 1
    /\ UNCHANGED <<variant, canEdit, canvasSize, idCounter, connectingState,
                   draggedSubStepId, isDragging, isGeneratingProposals,
                   isProposalModalOpen, error>>
    /\ Rendered(timers, connectors)
    /\ UNCHANGED <<pendingReads, dragSession, closed>>

\* the title input of the details panel, line 865
EditSelectedSubStep ==
    /\ DetailsPanelShown
    /\ handleUpdateSubStep(selectedSubStep[1].id)

\* the maximize buttons, lines 1173-1180 and 1219-1266: a tab's button is
\* rendered while its panel is not the maximized one, a column's button in
\* the three-column grid; either makes its panel the maximized one
Panels == {"info", "substeps", "details"}

setMaximizedPanel(id) ==
    /\ variant = "modal"
    /\ id # maximizedPanel
    /\ maximizedPanel' = id
    /\ lastOp' = Op("maximize", NoId, NoId, NoPos)
    /\ opCount < MaxOps
    /\ opCount' = opCount + 1
    /\ UNCHANGED <<variant, canEdit, canvasSize, subSteps, idCounter,
                   connectingState, draggedSubStepId, isDragging,
                   isGeneratingProposals, isProposalModalOpen, error,
                   subStepCardRefs, connectors, timers, saved, updateCalls>>
    /\ UNCHANGED uiVars

\* the same click, not counted among the MaxOps handlers of a behaviour (the
\* buttons can be clicked for ever).  The guard is the rendering condition
\* of line 1173 (the column buttons, shown in the grid only, fall under it),
\* the assignment the ternary of line 1177
MaximizeClick(id) ==
    /\ variant = "modal"
    /\ id # maximizedPanel
    /\ maximizedPanel' = IF maximizedPanel = id THEN "null" ELSE id
    /\ lastOp' = Op("maximize", NoId, NoId, NoPos)
    /\ UNCHANGED <<variant, canEdit, canvasSize, subSteps, idCounter,
                   connectingState, draggedSubStepId, isDragging,
                   isGeneratingProposals, isProposalModalOpen, error,
                   opCount, subStepCardRefs, connectors, timers, saved,
                   updateCalls>>
    /\ UNCHANGED uiVars

\* timers[k] may expire now: no timer set before it has a delay that is
\* not longer
MayExpire(k) == \A j \in 1..(k - 1) : timers[j].delay > timers[k].delay

\* a pending setTimeout(calculateConnectors, ...) expires and the callback
\* runs (lines 99-142), with the node set and refs of its render
calculateConnectorsTimeout(k) ==
    /\ variant = "modal"
    /\ k \in 1..Len(timers)
    /\ MayExpire(k)
    /\ connectors' = calculateConnectors(timers[k].subSteps, timers[k].refsSize,
                                         FlowMounted)
    /\ timers' = [j \in 1..(Len(timers) - 1) |->
                    IF j < k THEN timers[j] ELSE timers[j + 1]]
    /\ lastOp' = Op("calculateConnectors", timers[k].delay, k, NoPos)
    /\ opCount < MaxOps
    /\ opCount' = opCount + 1
    /\ UNCHANGED <<variant, canEdit, canvasSize, subSteps, idCounter,
                   connectingState, draggedSubStepId, isDragging,
                   isGeneratingProposals, isProposalModalOpen, error,
                   maximizedPanel, subStepCardRefs, saved, updateCalls>>
    /\ UNCHANGED uiVars

\* ------------------------------------------------------------ part_000
handleAutoLayout ==
    /\ variant = "legacy"
    /\ canEdit
    /\ subSteps' = legacy_AutoLayoutResult(subSteps)
    /\ lastOp' = Op("autoLayout", NoId, NoId, NoPos)
    /\ opCount < MaxOps
    /\ opCount' = opCount + 1
    /\ UNCHANGED <<variant, canEdit, canvasSize, idCounter, connectingState,
                   draggedSubStepId, isDragging, isGeneratingProposals,
                   isProposalModalOpen, error>>
    /\ UNCHANGED fxVars
    /\ UNCHANGED uiVars

addSubStep ==
    /\ variant = "legacy"
    /\ canEdit
    /\ subSteps' = legacy_addSubStepResult(subSteps, idCounter)
    /\ idCounter' = idCounter + 1
    /\ lastOp' = Op("add", idCounter, NoId, NoPos)
    /\ opCount < MaxOps
    /\ opCount' = opCount + 1
    /\ UNCHANGED <<variant, canEdit, canvasSize, connectingState,
                   draggedSubStepId, isDragging, isGeneratingProposals,
                   isProposalModalOpen, error>>
    /\ UNCHANGED fxVars
    /\ UNCHANGED uiVars

\* the title input of a SubStepCard: onUpdate({ text })
updateSubStep(subStepId) ==
    /\ variant = "legacy"
    /\ canEdit
    /\ subStepId \in Ids(subSteps)
    /\ subSteps' = legacy_updateSubStepResult(subSteps, subStepId, [text |-> NewText])
    /\ lastOp' = Op("update", subStepId, NoId, NoPos)
    /\ opCount < MaxOps
    /\ opCount' = opCount + 1
    /\ UNCHANGED <<variant, canEdit, canvasSize, idCounter, connectingState,
                   draggedSubStepId, isDragging, isGeneratingProposals,
                   isProposalModalOpen, error>>
    /\ UNCHANGED fxVars
    /\ UNCHANGED uiVars

\* the card of the removed node is unmounted, and its isDragging with it
removeSubStep(subStepId) ==
    /\ variant = "legacy"
    /\ canEdit
    /\ subStepId \in Ids(subSteps)
    /\ subSteps' = legacy_removeSubStepResult(subSteps, subStepId)
    /\ isDragging' = IF isDragging = subStepId THEN NoId ELSE isDragging
    /\ lastOp' = Op("remove", subStepId, NoId, NoPos)
    /\ opCount < MaxOps
    /\ opCount' = opCount + 1
    /\ UNCHANGED <<variant, canEdit, canvasSize, idCounter, connectingState,
                   draggedSubStepId, isGeneratingProposals,
                   isProposalModalOpen, error>>
    /\ UNCHANGED fxVars
    /\ UNCHANGED uiVars

\* SubStepCard.handleMouseDown, lines 576-585
SubStepCard_handleMouseDown(subStepId) ==
    /\ variant = "legacy"
    /\ canEdit
    /\ isDragging = NoId
    /\ subStepId \in Ids(subSteps)
    /\ isDragging' = subStepId
    /\ lastOp' = Op("cardMouseDown", subStepId, NoId, NoPos)
    /\ opCount < MaxOps
    /\ opCount' = opCount + 1
    /\ UNCHANGED <<variant, canEdit, canvasSize, subSteps, idCounter,
                   connectingState, draggedSubStepId, isGeneratingProposals,
                   isProposalModalOpen, error>>
    /\ UNCHANGED fxVars
    /\ UNCHANGED uiVars

\* SubStepCard.handleMouseMove, lines 587-603; p is the pointer minus the
\* drag offset, containerRect the bounding box the browser reports
SubStepCard_handleMouseMove(p, containerRect) ==
    /\ variant = "legacy"
    /\ canEdit
    /\ isDragging # NoId
    /\ subSteps' = legacy_updateSubStepResult(subSteps, isDragging,
                        [position |-> ClampToContainer(p, containerRect)])
    /\ lastOp' = Op("cardMouseMove", isDragging, containerRect.width, p)
    /\ opCount < MaxOps
    /\ opCount' = opCount + 1
    /\ UNCHANGED <<variant, canEdit, canvasSize, idCounter, connectingState,
                   draggedSubStepId, isDragging, isGeneratingProposals,
                   isProposalModalOpen, error>>
    /\ UNCHANGED fxVars
    /\ UNCHANGED uiVars

\* SubStepCard.handleMouseUp, lines 605-607
SubStepCard_handleMouseUp ==
    /\ variant = "legacy"
    /\ isDragging # NoId
    /\ isDragging' = NoId
    /\ lastOp' = Op("cardMouseUp", isDragging, NoId, NoPos)
    /\ opCount < MaxOps
    /\ opCount' = opCount + 1
    /\ UNCHANGED <<variant, canEdit, canvasSize, subSteps, idCounter,
                   connectingState, draggedSubStepId, isGeneratingProposals,
                   isProposalModalOpen, error>>
    /\ UNCHANGED fxVars
    /\ UNCHANGED uiVars

legacy_handleConfirmProposals(additions) ==
    /\ variant = "legacy"
    /\ isProposalModalOpen
    /\ LET r == legacy_ConfirmProposalsResult(subSteps, additions, idCounter)
       IN /\ subSteps' = r.nodes
          /\ idCounter' = r.nextId
    /\ isProposalModalOpen' = FALSE
    /\ lastOp' = Op("merge", Len(additions.newSubSteps),
                    Len(additions.newActionItems), additions)
    /\ opCount < MaxOps
    /\ opCount' = opCount + 1
    /\ UNCHANGED <<variant, canEdit, canvasSize, connectingState,
                   draggedSubStepId, isDragging, isGeneratingProposals, error>>
    /\ UNCHANGED fxVars
    /\ UNCHANGED uiVars

\* the Save button of the footer, rendered while canEdit (lines 491-498):
\* handleSave, lines 80-83
handleSave ==
    /\ variant = "legacy"
    /\ canEdit
    /\ saved' = saveChanges(Details(subSteps, canvasSize))
    /\ updateCalls' = updateCalls + 1
    /\ closed' = TRUE
    /\ lastOp' = Op("save", NoId, NoId, NoPos)
    /\ opCount < MaxOps
    /\ opCount' = opCount + 1
    /\ UNCHANGED <<variant, canEdit, canvasSize, subSteps, idCounter,
                   connectingState, draggedSubStepId, isDragging,
                   isGeneratingProposals, isProposalModalOpen, error>>
    /\ UNCHANGED <<maximizedPanel, subStepCardRefs, connectors, timers>>
    /\ UNCHANGED <<selectedSubStep, pendingReads, dragSession>>

\* mutant: closing saves as well
CloseButton_saves ==
    /\ closed' = TRUE
    /\ saved' = saveChanges(Details(subSteps, canvasSize))
    /\ updateCalls' = updateCalls + 1
    /\ lastOp' = Op("close", NoId, NoId, NoPos)
    /\ opCount < MaxOps
    /\ opCount' = opCount + 1
    /\ UNCHANGED <<variant, canEdit, canvasSize, subSteps, idCounter,
                   connectingState, draggedSubStepId, isDragging,
                   isGeneratingProposals, isProposalModalOpen, error>>
    /\ UNCHANGED <<maximizedPanel, subStepCardRefs, connectors, timers>>
    /\ UNCHANGED <<selectedSubStep, pendingReads, dragSession>>

\* the X of the header and the Cancel button of the footer (part_000 lines
\* 266-271 and 485-490): onClick = onClose
CloseButton ==
    /\ closed' = TRUE
    /\ lastOp' = Op("close", NoId, NoId, NoPos)
    /\ opCount < MaxOps
    /\ opCount' = opCount + 1
    /\ UNCHANGED <<variant, canEdit, canvasSize, subSteps, idCounter,
                   connectingState, draggedSubStepId, isDragging,
                   isGeneratingProposals, isProposalModalOpen, error>>
    /\ UNCHANGED fxVars
    /\ UNCHANGED <<selectedSubStep, pendingReads, dragSession>>

\* the ids a handler can be given: those of the rendered cards
AllIds == Ids(subSteps)

Merges == { [newSubSteps |-> ns, newActionItems |-> na] :
                ns \in ProposalChoices, na \in ChildChoices }

\* a task that declares no canvas size (the 1200 x 800 default applies)
Init == InitWith({ <<>> })

Next ==
    \/ handleAutoLayoutSubSteps
    \/ \E id \in AllIds : handleSubStepDragStart(id)
    \/ \E p \in DropPoints : handleSubStepDrop(p)
    \/ \E id \in AllIds, fromPos \in HandlePoints : handleStartConnection(id, fromPos)
    \/ \E id \in AllIds : handleEndConnection(id)
    \/ handleMouseUp
    \/ \E s \in AllIds, t \in AllIds : handleDeleteConnection(s, t)
    \/ handleAddSubStep
    \/ \E id \in AllIds : handleRemoveSubStep(id)
    \/ \E id \in AllIds : handleUpdateSubStep(id)
    \/ handleGenerateProposals
    \/ ProposalsResolved
    \/ ProposalsRejected
    \/ CloseProposalModal
    \/ \E m \in Merges : handleConfirmProposals(m)
    \/ handleAutoLayout
    \/ addSubStep
    \/ \E id \in AllIds : updateSubStep(id)
    \/ \E id \in AllIds : removeSubStep(id)
    \/ \E id \in AllIds : SubStepCard_handleMouseDown(id)
    \/ \E p \in DropPoints, r \in ContainerRects : SubStepCard_handleMouseMove(p, r)
    \/ SubStepCard_handleMouseUp
    \/ \E m \in Merges : legacy_handleConfirmProposals(m)

Spec == Init /\ [][Next]_vars

\* ------------------------------------------------------------------
\* SpecCalls: handleStartConnection / handleEndConnection as functions of
\* their arguments, called with any id (99 is the id of no node)
\* ------------------------------------------------------------------
ArgIds == Ids(ChainABC) \cup {99}

InitCalls ==
    /\ InitWith({ <<>> })
    /\ variant = "modal"
    /\ canEdit

NextCalls ==
    \/ \E id \in ArgIds, fromPos \in HandlePoints : StartConnectionCall(id, fromPos)
    \/ \E id \in ArgIds : EndConnectionCall(id)
    \/ handleMouseUp
    \/ \E id \in AllIds : handleRemoveSubStep(id)

SpecCalls == InitCalls /\ [][NextCalls]_vars

\* ------------------------------------------------------------------
\* SpecDrag: the two drag gestures alone, on every canvas of CanvasSizes
\* ------------------------------------------------------------------
InitDrag == InitWith(CanvasSizes)

NextDrag ==
    \/ \E id \in AllIds : handleSubStepDragStart(id)
    \/ \E p \in DropPoints : handleSubStepDrop(p)
    \/ SubStepDragEnd
    \/ \E id \in AllIds : SubStepCard_handleMouseDown(id)
    \/ \E p \in DropPoints, r \in ContainerRects : SubStepCard_handleMouseMove(p, r)
    \/ SubStepCard_handleMouseUp

SpecDrag == InitDrag /\ [][NextDrag]_vars

\* ------------------------------------------------------------------
\* SpecFlow: the flow canvas of TaskDetailModal.tsx with its connector
\* timers and the maximize buttons
\* ------------------------------------------------------------------
InitFlow ==
    /\ InitTask({ <<>> }, { ChainABC, StaleAB })
    /\ variant = "modal"
    /\ canEdit

NextFlow ==
    \/ handleAutoLayoutSubSteps
    \/ \E id \in AllIds : handleSubStepDragStart(id)
    \/ \E p \in DropPoints : handleSubStepDrop(p)
    \/ \E id \in AllIds, fromPos \in HandlePoints : handleStartConnection(id, fromPos)
    \/ \E id \in AllIds : handleEndConnection(id)
    \/ \E s \in AllIds, t \in AllIds : handleDeleteConnection(s, t)
    \/ handleAddSubStep
    \/ \E id \in AllIds : handleRemoveSubStep(id)
    \/ \E id \in Panels : setMaximizedPanel(id)
    \/ \E k \in 1..Len(timers) : calculateConnectorsTimeout(k)

SpecFlow == InitFlow /\ [][NextFlow]_vars

\* ------------------------------------------------------------------
\* SpecEdit: the details panel of TaskDetailModal.tsx (selection, action
\* items, attachments and their file reads) next to edits of the canvas.
\* handleConfirmProposals is left out: its in-place assignment (line 325)
\* writes through to a selected node object, which these records cannot say
\* ------------------------------------------------------------------
\* the action items and attachments the details panel lists
ShownActionItems ==
    IF selectedSubStep = <<>> THEN <<>> ELSE selectedSubStep[1].actionItems

ShownAttachments ==
    IF selectedSubStep = <<>> THEN <<>> ELSE selectedSubStep[1].attachments

InitEdit ==
    /\ InitTask({ <<>> }, { ChainABC })
    /\ variant = "modal"
    /\ canEdit

NextEdit ==
    \/ \E id \in AllIds : setSelectedSubStep(id)
    \/ EditSelectedSubStep
    \/ handleAddActionItem
    \/ \E k \in 1..Len(ShownActionItems) : handleUpdateActionItem(k)
    \/ \E k \in 1..Len(ShownActionItems) : handleRemoveActionItem(k)
    \/ handleSubStepFileChange
    \/ \E k \in 1..Len(pendingReads) : FileReader_onload(k)
    \/ \E k \in 1..Len(ShownAttachments) : handleRemoveSubStepAttachment(k)
    \/ handleAddSubStep
    \/ \E id \in AllIds : handleRemoveSubStep(id)
    \/ \E id \in AllIds : handleSubStepDragStart(id)
    \/ \E p \in DropPoints : handleSubStepDrop(p)
    \/ \E id \in AllIds, fromPos \in HandlePoints : handleStartConnection(id, fromPos)
    \/ \E id \in AllIds : handleEndConnection(id)

SpecEdit == InitEdit /\ [][NextEdit]_vars

\* ------------------------------------------------------------------
\* SpecReadOnly: both components mounted with canEdit = false, and every
\* handler an event can still reach
\* ------------------------------------------------------------------
\* the handlers whose first statement is `if (!canEdit) return;` (with
\* further tests in the same statement for some)
GuardedHandlers ==
    IF variant = "modal"
    THEN { "handleSubStepDragStart", "handleStartConnection",
           "handleDeleteConnection", "handleGenerateProposals",
           "handleAddSubStep", "handleRemoveSubStep", "handleUpdateSubStep",
           "handleAddActionItem", "handleUpdateActionItem",
           "handleRemoveActionItem", "handleTaskFileChange",
           "handleSubStepFileChange", "handleRemoveTaskAttachment",
           "handleRemoveSubStepAttachment", "handleGenerateReport" }
    ELSE { "handleAutoLayout", "handleGenerateProposals", "addSubStep",
           "updateSubStep", "removeSubStep", "addActionItem",
           "updateActionItem", "removeActionItem", "handleFileUpload",
           "removeAttachment", "SubStepCard.handleMouseDown",
           "SubStepCard.handleMouseMove" }

\* mutant: handleAddSubStep has no canEdit test
ReadOnlyCall_addUnguarded(h) ==
    /\ ~canEdit
    /\ h \in GuardedHandlers
    /\ subSteps' = IF h = "handleAddSubStep"
                   THEN AddSubStepResult(subSteps, idCounter)
                   ELSE subSteps
    /\ lastOp' = Op(h, NoId, NoId, NoPos)
    /\ opCount < MaxOps
    /\ opCount' = opCount + 1
    /\ UNCHANGED <<variant, canEdit, canvasSize, idCounter,
                   connectingState, draggedSubStepId, isDragging,
                   isGeneratingProposals, isProposalModalOpen, error>>
    /\ UNCHANGED fxVars
    /\ UNCHANGED uiVars

\* one of these handlers is called while canEdit is false, and returns
ReadOnlyCall(h) ==
    /\ ~canEdit
    /\ h \in GuardedHandlers
    /\ lastOp' = Op(h, NoId, NoId, NoPos)
    /\ opCount < MaxOps
    /\ opCount' = opCount + 1
    /\ UNCHANGED <<variant, canEdit, canvasSize, subSteps, idCounter,
                   connectingState, draggedSubStepId, isDragging,
                   isGeneratingProposals, isProposalModalOpen, error>>
    /\ UNCHANGED fxVars
    /\ UNCHANGED uiVars

InitReadOnly ==
    /\ InitTask({ <<>> }, { ChainABC })
    /\ canEdit = FALSE

\* next to the guarded handlers: the handlers without a canEdit test that an
\* event can reach (a card click, the pointer-up handlers, the drop of
\* something dragged onto the canvas, the maximize buttons)
NextReadOnly ==
    \/ \E h \in GuardedHandlers : ReadOnlyCall(h)
    \/ \E p \in DropPoints : handleSubStepDrop(p)
    \/ \E id \in AllIds : handleEndConnection(id)
    \/ handleMouseUp
    \/ \E id \in AllIds : setSelectedSubStep(id)
    \/ \E id \in Panels : setMaximizedPanel(id)

SpecReadOnly == InitReadOnly /\ [][NextReadOnly]_vars

\* ------------------------------------------------------------------
\* SpecSave: part_000 with its edits, Save and the two close buttons.  What
\* onClose does is the parent's business: closed only records the call
\* ------------------------------------------------------------------
InitSave ==
    /\ InitTask({ <<>> }, InitialSubSteps)
    /\ variant = "legacy"

NextSave ==
    \/ handleAutoLayout
    \/ addSubStep
    \/ \E id \in AllIds : updateSubStep(id)
    \/ \E id \in AllIds : removeSubStep(id)
    \/ \E id \in AllIds : SubStepCard_handleMouseDown(id)
    \/ \E p \in DropPoints, r \in ContainerRects : SubStepCard_handleMouseMove(p, r)
    \/ SubStepCard_handleMouseUp
    \/ handleGenerateProposals
    \/ ProposalsResolved
    \/ ProposalsRejected
    \/ CloseProposalModal
    \/ \E m \in Merges : legacy_handleConfirmProposals(m)
    \/ handleSave
    \/ CloseButton

SpecSave == InitSave /\ [][NextSave]_vars

\* ------------------------------------------------------------------
\* SpecPanels: the maximize buttons of TaskDetailModal.tsx, clicked as often
\* as the user likes, next to a few edits.  Fairness: every button that is
\* on screen again and again is clicked at some time, and a click that can
\* bring the grid back again and again does so at some time
\* ------------------------------------------------------------------
InitPanels ==
    /\ InitTask({ <<>> }, { ChainABC })
    /\ variant = "modal"

NextPanels ==
    \/ \E id \in Panels : MaximizeClick(id)
    \/ \E id \in AllIds : setSelectedSubStep(id)
    \/ handleAddSubStep
    \/ \E k \in 1..Len(timers) : calculateConnectorsTimeout(k)

SpecPanels ==
    /\ InitPanels
    /\ [][NextPanels]_vars
    /\ \A id \in Panels : SF_vars(MaximizeClick(id))
    /\ \A id \in Panels :
           SF_vars(MaximizeClick(id) /\ maximizedPanel' = "null")

\* ------------------------------------------------------------------
\* SpecLayout: auto-layout alone, on tasks of up to MaxLayoutNodes nodes
\* at any positions of LayoutPositions
\* ------------------------------------------------------------------
LayoutPositions == {Pos(0, 0), Pos(300, 40), Pos(9999, 9999)}

\* a chain 1 -> 2 -> ... -> n with node i at ps[i]
ChainAt(ps) ==
    [i \in 1..Len(ps) |->
        SubStep(i, "S", "", ps[i],
                IF i < Len(ps) THEN <<i + 1>> ELSE <<>>, <<>>)]

LayoutInputs ==
    UNION { { ChainAt(ps) : ps \in [1..n -> LayoutPositions] } :
                n \in 0..MaxLayoutNodes }

InitLayout == InitTask({ <<>> }, LayoutInputs)

NextLayout ==
    \/ handleAutoLayoutSubSteps
    \/ handleAutoLayout

SpecLayout == InitLayout /\ [][NextLayout]_vars

\* ==================================================================
\* Properties
\* ==================================================================
Nodes == 1..Len(subSteps)
Elems(seq) == { seq[k] : k \in 1..Len(seq) }

\* equal in every field but nextSubStepIds
SameExceptEdges(a, b) ==
    [a EXCEPT !.nextSubStepIds = <<>>] = [b EXCEPT !.nextSubStepIds = <<>>]

Without(seq, e) == SelectSeq(seq, LAMBDA v : v # e)

IsPrefix(a, b) == Len(a) <= Len(b) /\ \A k \in 1..Len(a) : a[k] = b[k]

\* C1: every id in every node's nextSubStepIds is the id of a node that is
\* currently in subSteps.
C1_NoDanglingReferences ==
    \A i \in Nodes : Elems(subSteps[i].nextSubStepIds) \subseteq Ids(subSteps)

\* C2: removing node X is one update whose result holds every other node, in
\* the same order and unchanged but for nextSubStepIds, does not hold X, and
\* has X taken out of every remaining node's nextSubStepIds while every other
\* edge is kept.
C2_RemoveCascades ==
    [][ lastOp'.op = "remove" =>
          LET X == lastOp'.a
              rest == SelectSeq(subSteps, LAMBDA ss : ss.id # X)
          IN /\ X \notin Ids(subSteps')
             /\ Len(subSteps') = Len(rest)
             /\ \A i \in 1..Len(rest) :
                   /\ SameExceptEdges(subSteps'[i], rest[i])
                   /\ subSteps'[i].nextSubStepIds
                        = Without(rest[i].nextSubStepIds, X) ]_vars

\* the nodes of new are those of old, except that target is among the
\* nextSubStepIds of the node fromId (added last when it was not there)
OnlyEdgeAdded(old, new, fromId, target) ==
    /\ Len(new) = Len(old)
    /\ \A i \in 1..Len(old) :
          IF old[i].id = fromId
          THEN /\ SameExceptEdges(new[i], old[i])
               /\ IsPrefix(old[i].nextSubStepIds, new[i].nextSubStepIds)
               /\ Elems(new[i].nextSubStepIds)
                    = Elems(old[i].nextSubStepIds) \cup {target}
          ELSE new[i] = old[i]

\* C3: the connect gesture is a two-state machine.  Pointer-down on a connect
\* handle moves Idle to Connecting(fromId, fromPos); every pointer-up (on
\* another card, on the same card, on the empty canvas) moves Connecting to
\* Idle; the node set changes only for a pointer-up on another card T, and
\* then only in that T is in the nextSubStepIds of node fromId.
C3_ConnectGesture ==
    [][ /\ (lastOp'.op = "startConnection" /\ connectingState = <<>>) =>
              /\ connectingState' =
                    << [fromId |-> lastOp'.a, fromPos |-> lastOp'.p] >>
              /\ subSteps' = subSteps
        /\ (lastOp'.op \in {"endConnection", "mouseUp"} /\ connectingState # <<>>) =>
              /\ connectingState' = <<>>
              /\ IF lastOp'.op = "endConnection"
                    /\ lastOp'.b # connectingState[1].fromId
                 THEN OnlyEdgeAdded(subSteps, subSteps',
                                    connectingState[1].fromId, lastOp'.b)
                 ELSE subSteps' = subSteps ]_vars

\* a gesture from card 1 has ended on card 3 and the edge 1 -> 3 is there
C3_Witness ==
    /\ lastOp.op = "endConnection" /\ lastOp.a = 1 /\ lastOp.b = 3
    /\ connectingState = <<>>
    /\ subSteps[1].nextSubStepIds = <<2, 3>>

NoSelfLoop == \A i \in Nodes : subSteps[i].id \notin Elems(subSteps[i].nextSubStepIds)

\* C4: ending a connect gesture on the card it started from changes no node,
\* and no reachable state has a node whose nextSubStepIds holds its own id.
C4_NoSelfLoop ==
    /\ []NoSelfLoop
    /\ [][ (lastOp'.op = "endConnection" /\ lastOp'.a = lastOp'.b) =>
              subSteps' = subSteps ]_vars

\* a gesture has ended on the card it started from
C4_Witness ==
    /\ lastOp.op = "endConnection"
    /\ lastOp.a # NoId
    /\ lastOp.a = lastOp.b

NoDuplicateEdge ==
    \A i \in Nodes :
        Cardinality(Elems(subSteps[i].nextSubStepIds))
            = Len(subSteps[i].nextSubStepIds)

\* C6: completing the gesture from S to T when T is already in S's
\* nextSubStepIds leaves the node set as it is, and no reachable state has a
\* node whose nextSubStepIds holds the same id twice.
C6_SetSemantics ==
    /\ []NoDuplicateEdge
    /\ [][ (/\ lastOp'.op = "endConnection"
            /\ \E i \in Nodes :
                  /\ subSteps[i].id = lastOp'.a
                  /\ lastOp'.b \in Elems(subSteps[i].nextSubStepIds)) =>
              subSteps' = subSteps ]_vars

\* the gesture 1 -> 2 was completed on the chain, which already had 1 -> 2
C6_Witness ==
    /\ lastOp.op = "endConnection" /\ lastOp.a = 1 /\ lastOp.b = 2
    /\ opCount = 2
    /\ subSteps = ChainABC

\* C7: handleDeleteConnection(S, T) takes T out of S's nextSubStepIds when it
\* is there and changes nothing otherwise; S's other edges and their order,
\* every other node's edges, the node order and every other field stay.
C7_Disconnect ==
    [][ lastOp'.op = "deleteConnection" =>
          LET S == lastOp'.a
              T == lastOp'.b
          IN /\ Len(subSteps') = Len(subSteps)
             /\ \A i \in Nodes :
                   /\ SameExceptEdges(subSteps'[i], subSteps[i])
                   /\ subSteps[i].id # S =>
                         subSteps'[i].nextSubStepIds = subSteps[i].nextSubStepIds
                   /\ subSteps[i].id = S =>
                         /\ T \notin Elems(subSteps'[i].nextSubStepIds)
                         /\ subSteps'[i].nextSubStepIds
                              = Without(subSteps[i].nextSubStepIds, T)
                   /\ T \notin Elems(subSteps[i].nextSubStepIds) =>
                         subSteps'[i] = subSteps[i] ]_vars

\* the edge 1 -> 2 of the chain was deleted first thing
C7_Witness ==
    /\ lastOp.op = "deleteConnection" /\ lastOp.a = 1 /\ lastOp.b = 2
    /\ opCount = 1
    /\ Len(subSteps) = 3
    /\ subSteps[1].nextSubStepIds = <<>>
    /\ subSteps[2].nextSubStepIds = <<3>>

\* C8: every node's position satisfies 0 <= x <= canvas.width - 200 and
\* 0 <= y <= canvas.height - 120 (stated for a canvas that can hold a card).
C8_PositionsInCanvas ==
    LET canvas == DeclaredCanvas(canvasSize)
    IN (canvas.width >= 200 /\ canvas.height >= 120) =>
          \A i \in Nodes :
             /\ 0 <= subSteps[i].position.x
             /\ subSteps[i].position.x <= canvas.width - 200
             /\ 0 <= subSteps[i].position.y
             /\ subSteps[i].position.y <= canvas.height - 120

\* C9: a dragged card released at the proposed position (px, py) ends at
\* (max(0, min(px, canvas.width - 200)), max(0, min(py, canvas.height - 120)))
\* of the declared canvas size.
C9_DropClampsToDeclaredCanvas ==
    [][ (\/ lastOp'.op = "drop" /\ draggedSubStepId # NoId /\ canEdit
         \/ lastOp'.op = "cardMouseMove") =>
           LET canvas == DeclaredCanvas(canvasSize)
               p == lastOp'.p
           IN /\ Len(subSteps') = Len(subSteps)
              /\ \A i \in Nodes :
                    subSteps[i].id = lastOp'.a =>
                       /\ subSteps'[i].position.x
                            = Max(0, Min(p.x, canvas.width - 200))
                       /\ subSteps'[i].position.y
                            = Max(0, Min(p.y, canvas.height - 120)) ]_vars

\* C10: auto-layout puts the node at 0-based index i at
\* (margin + (i mod 3) * 250, margin + floor(i / 3) * 150), whatever the node
\* is, and keeps the order and every other field of every node.
C10_AutoLayoutGrid ==
    [][ lastOp'.op = "autoLayout" =>
          LET margin == IF variant = "modal" THEN PADDING ELSE MARGIN
          IN /\ Len(subSteps') = Len(subSteps)
             /\ \A k \in Nodes :
                   subSteps'[k] =
                      [subSteps[k] EXCEPT !.position =
                          Pos(margin + ((k - 1) % 3) * 250,
                              margin + ((k - 1) \div 3) * 150)] ]_vars

\* auto-layout has run on four nodes or more, so a second row exists
C10_Witness ==
    /\ lastOp.op = "autoLayout"
    /\ Len(subSteps) >= 4
    /\ subSteps[4].nextSubStepIds = <<>>
    /\ subSteps[1].nextSubStepIds = <<2>>

\* C11 (as the code has it): auto-layout puts the 1st node at
\* (margin, margin) and the 4th node, the first of the second row, at
\* (margin, margin + 150): (50, 50) and (50, 200) for the margin 50 of
\* part_000, (20, 20) and (20, 170) for the padding 20 of TaskDetailModal.tsx.
C11_GridExample ==
    [][ (lastOp'.op = "autoLayout" /\ Len(subSteps) >= 4) =>
          IF variant = "legacy"
          THEN /\ subSteps'[1].position = Pos(50, 50)
               /\ subSteps'[4].position = Pos(50, 200)
          ELSE /\ subSteps'[1].position = Pos(20, 20)
               /\ subSteps'[4].position = Pos(20, 170) ]_vars

\* C11 as stated: with margin 50 the 1st node lands at (50, 50) and the 4th
\* node at (50, 150).
C11_GridExample_asStated ==
    [][ (lastOp'.op = "autoLayout" /\ Len(subSteps) >= 4 /\ variant = "legacy") =>
          /\ subSteps'[1].position = Pos(50, 50)
          /\ subSteps'[4].position = Pos(50, 150) ]_vars

\* part_000's auto-layout has run on four nodes that were elsewhere
C11_Witness ==
    /\ variant = "legacy"
    /\ lastOp.op = "autoLayout"
    /\ opCount = 1
    /\ Len(subSteps) = 4
    /\ subSteps[1].position = Pos(50, 50)
    /\ subSteps[4].position = Pos(50, 200)

\* C12: an auto-layout that directly follows an auto-layout changes no node:
\* positions and every other field stay as the first one left them.
C12_AutoLayoutIdempotent ==
    [][ (lastOp.op = "autoLayout" /\ lastOp'.op = "autoLayout") =>
            subSteps' = subSteps ]_vars

\* auto-layout has run twice in a row on four nodes (NextLayout has no other
\* step), and the first of the two moved them
C12_Witness ==
    /\ lastOp.op = "autoLayout"
    /\ opCount = 2
    /\ Len(subSteps) = 4
    /\ subSteps[4].position.y > PADDING

\* the node with the given id
NodeOf(nodes, id) == nodes[IndexOf(nodes, id)]

\* the (source id, target id) pairs of the edges of nodes whose target is a
\* node of nodes
LiveEdges(nodes) ==
    UNION { { <<nodes[i].id, t>> :
                t \in Elems(nodes[i].nextSubStepIds) \cap Ids(nodes) } :
            i \in 1..Len(nodes) }

\* the spec's example: A at (0, 0), B at (300, 0), A.nextIds = [B.id]
IsExampleAB(nodes) ==
    /\ Len(nodes) = 2
    /\ nodes[1].position = Pos(0, 0)
    /\ nodes[2].position = Pos(300, 0)
    /\ nodes[1].nextSubStepIds = <<nodes[2].id>>
    /\ nodes[2].nextSubStepIds = <<>>

C15_ConnectorsFollowNodes ==
    (variant = "modal" /\ FlowMounted /\ timers = <<>>) =>
        connectors = NewConnectors(subSteps)

\* C20: in TaskDetailModal.tsx the arguments of the last onUpdateTask call
\* are task.id and the current extendedDetails (sub-steps and canvas size),
\* after the mount and after every handler.
C20_EveryEditIsReported ==
    variant = "modal" =>
        saved = << [taskId |-> TaskId,
                    updates |-> [subSteps |-> subSteps,
                                 subStepCanvasSize |-> canvasSize]] >>

\* a merge has changed the node set and the change has been reported
C20_Witness ==
    /\ variant = "modal"
    /\ lastOp.op = "merge"
    /\ Len(subSteps) >= 5
    /\ saved # <<>>
    /\ saved[1].updates.subSteps = subSteps

\* C16: add-node appends exactly one node, with an id no node has, no action
\* items and no outgoing edges, at (50 + n * spacing, 50) for the n nodes
\* there were (spacing 220 in TaskDetailModal.tsx, 250 in part_000), and
\* leaves every existing node and the order as they were.
C16_AddNode ==
    [][ lastOp'.op = "add" =>
          LET n == Len(subSteps)
              spacing == IF variant = "modal" THEN 220 ELSE 250
          IN /\ Len(subSteps') = n + 1
             /\ \A i \in 1..n : subSteps'[i] = subSteps[i]
             /\ subSteps'[n + 1].id \notin Ids(subSteps)
             /\ subSteps'[n + 1].actionItems = <<>>
             /\ subSteps'[n + 1].nextSubStepIds = <<>>
             /\ subSteps'[n + 1].position = Pos(50 + n * spacing, 50) ]_vars

\* a node has been added to A -> B -> C
C16_Witness ==
    /\ lastOp.op = "add"
    /\ Len(subSteps) = 4
    /\ subSteps[1].id = 1 /\ subSteps[2].id = 2 /\ subSteps[3].id = 3
    /\ subSteps[4].id = lastOp.a
    /\ subSteps[4].position.y = 50

IdsInOrder(nodes) == [i \in 1..Len(nodes) |-> nodes[i].id]

\* C17: no two nodes of a state have the same id, and a node's id never
\* changes: every step leaves the ids of the nodes in their order, except
\* that a remove takes out the id of the removed node and an add or a merge
\* puts ids no node had at the end.
C17_UniqueIds ==
    /\ [](\A i \in Nodes, j \in Nodes : i # j => subSteps[i].id # subSteps[j].id)
    /\ [][ LET before == IdsInOrder(subSteps)
               after == IdsInOrder(subSteps')
               kept == IF lastOp'.op = "remove"
                       THEN Without(before, lastOp'.a)
                       ELSE before
           IN /\ IsPrefix(kept, after)
              /\ \A k \in (Len(kept) + 1)..Len(after) :
                    after[k] \notin Ids(subSteps) ]_vars

\* two proposals have been merged into A -> B -> C
C17_Witness ==
    /\ lastOp.op = "merge"
    /\ lastOp.a = 2
    /\ Len(subSteps) = 5
    /\ subSteps[4].id # subSteps[5].id

\* the child specs of specs that name the node id, in spec order
SpecsFor(specs, id) == SelectSeq(specs, LAMBDA sp : sp.targetSubStepId = id)

\* C18: a merge appends to the action items of every node, existing or
\* merged in by it, one uncompleted item per child spec that names the node,
\* titled as the spec and in spec order, after the items the node had; a
\* child spec that names no node adds nothing anywhere, and a node no child
\* spec names keeps its action items.
C18_MergeChildItems ==
    [][ lastOp'.op = "merge" =>
          \A i \in 1..Len(subSteps') :
              LET before == IF i <= Len(subSteps)
                            THEN subSteps[i].actionItems ELSE <<>>
                  after == subSteps'[i].actionItems
                  mine == SpecsFor(lastOp'.p.newActionItems, subSteps'[i].id)
              IN /\ Len(after) = Len(before) + Len(mine)
                 /\ IsPrefix(before, after)
                 /\ \A k \in 1..Len(mine) :
                       /\ after[Len(before) + k].text = mine[k].title
                       /\ after[Len(before) + k].completed = FALSE ]_vars

\* a merge has given node A, which had one item, the items c1 and c3, and
\* the node it added the item c4, with a child spec of 99 resolving nowhere
C18_Witness ==
    /\ lastOp.op = "merge"
    /\ lastOp.b = 3
    /\ Len(subSteps) = 4
    /\ Len(subSteps[1].actionItems) = 3
    /\ subSteps[1].actionItems[2].text = "c1"
    /\ subSteps[1].actionItems[3].text = "c3"
    /\ Len(subSteps[4].actionItems) = 1
    /\ subSteps[4].actionItems[1].text = "c4"

\* equal in every field but actionItems
SameExceptItems(a, b) ==
    [a EXCEPT !.actionItems = <<>>] = [b EXCEPT !.actionItems = <<>>]

\* C19: merging k proposals into n nodes gives n + k nodes: the n nodes
\* first, in their order and unchanged (but for the action items child specs
\* give them), then one node per proposal in proposal order with text =
\* title, notes = description and no action items (but for those child specs
\* give it); with no proposal and no child spec the node set is unchanged.
C19_MergeNodes ==
    [][ lastOp'.op = "merge" =>
          LET n == Len(subSteps)
              proposals == lastOp'.p.newSubSteps
              specs == lastOp'.p.newActionItems
          IN /\ Len(subSteps') = n + Len(proposals)
             /\ \A i \in 1..n :
                   /\ SameExceptItems(subSteps'[i], subSteps[i])
                   /\ SpecsFor(specs, subSteps[i].id) = <<>>
                        => subSteps'[i] = subSteps[i]
             /\ \A j \in 1..Len(proposals) :
                   /\ subSteps'[n + j].text = proposals[j].title
                   /\ subSteps'[n + j].notes = proposals[j].description
                   /\ subSteps'[n + j].id \notin Ids(subSteps)
                   /\ SpecsFor(specs, subSteps'[n + j].id) = <<>>
                        => subSteps'[n + j].actionItems = <<>>
             /\ (proposals = <<>> /\ specs = <<>>) => subSteps' = subSteps ]_vars

\* the proposal {T, D} has been merged into a task without nodes
C19_Witness ==
    /\ lastOp.op = "merge"
    /\ lastOp.a = 1
    /\ Len(subSteps) = 1
    /\ subSteps[1].text = "T"
    /\ subSteps[1].notes = "D"
    /\ subSteps[1].actionItems = <<>>

\* C21: when generateStepProposals rejects, the sub-steps, the canvas size and
\* what was last reported to onUpdateTask stay as they were, the proposal
\* review is not opened and an error message is set; when the call resolves
\* and when it rejects, the is-generating flag, set since the call started, is
\* false afterwards.
C21_GenerationFailure ==
    [][ /\ lastOp'.op = "rejected" =>
              /\ subSteps' = subSteps
              /\ canvasSize' = canvasSize
              /\ saved' = saved
              /\ isProposalModalOpen' = isProposalModalOpen
              /\ error' # NoError
        /\ lastOp'.op \in {"resolved", "rejected"} =>
              /\ isGeneratingProposals
              /\ ~isGeneratingProposals' ]_vars

\* a generation call for A -> B -> C has failed
C21_Witness ==
    /\ lastOp.op = "rejected"
    /\ error = "failed"
    /\ ~isGeneratingProposals
    /\ ~isProposalModalOpen
    /\ subSteps = ChainABC

\* C22: when the read of a sub-step attachment completes, the node set is the
\* current one (with every edit made since the file was chosen) with the new
\* attachment appended to the attachments of the node the file was chosen
\* for: no other node changes, none is lost and no removed node comes back.
C22_NoLostUpdate ==
    [][ lastOp'.op = "fileLoaded" =>
          /\ Len(subSteps') = Len(subSteps)
          /\ \A i \in Nodes :
                IF subSteps[i].id = lastOp'.a
                THEN subSteps'[i] =
                        [subSteps[i] EXCEPT !.attachments =
                            Append(@, Attachment(lastOp'.b))]
                ELSE subSteps'[i] = subSteps[i] ]_vars

C24_ReadOnlyNeverReports ==
    (variant = "modal" /\ ~canEdit) => (updateCalls = 0 /\ saved = <<>>)

\* C25: whenever selectedSubStep is not null, subSteps holds a node with its
\* id, and selectedSubStep equals that node field for field.
C25_SelectionMirrorsNode ==
    selectedSubStep # <<>> =>
        \E i \in Nodes :
            /\ subSteps[i].id = selectedSubStep[1].id
            /\ subSteps[i] = selectedSubStep[1]

\* C26: a drop on the canvas moves a node only while the drag of a card is in
\* progress: with none in progress (none was started, or the last one ended
\* without a drop on the canvas) the drop changes no node.
C26_DropNeedsDrag ==
    [][ (lastOp'.op = "drop" /\ dragSession = NoId) => subSteps' = subSteps ]_vars

\* C27: a drop of the dragged node X (a pointer move of the dragged card in
\* part_000) changes nothing but X's position: the nodes keep their order,
\* every other node is untouched, X keeps its id, text, notes, nextSubStepIds
\* and action items, and the canvas size stays.
C27_DropFrame ==
    [][ lastOp'.op \in {"drop", "cardMouseMove"} =>
          /\ canvasSize' = canvasSize
          /\ Len(subSteps') = Len(subSteps)
          /\ \A i \in Nodes :
                /\ [subSteps'[i] EXCEPT !.position = NoPos]
                      = [subSteps[i] EXCEPT !.position = NoPos]
                /\ subSteps[i].id # lastOp'.a => subSteps'[i] = subSteps[i] ]_vars

\* node B of A -> B -> C has been dragged and dropped at (300, 40)
C27_Witness ==
    /\ variant = "modal"
    /\ lastOp.op = "drop"
    /\ lastOp.a = 2
    /\ Len(subSteps) = 3
    /\ subSteps[2].position = Pos(300, 40)
    /\ subSteps[2].nextSubStepIds = <<3>>
    /\ subSteps[1] = ChainABC[1]
    /\ subSteps[3] = ChainABC[3]

\* C28: a merge of k proposals into n nodes puts the i-th new node
\* (i = 0 .. k-1) at (50 + (n + i) * spacing, 50), where k successive
\* add-node operations would put it (spacing 220 in TaskDetailModal.tsx, 250
\* in part_000), so no two nodes of one merge share a position.
C28_MergeAsSuccessiveAdds ==
    [][ lastOp'.op = "merge" =>
          LET n == Len(subSteps)
              k == lastOp'.a
              spacing == IF variant = "modal" THEN 220 ELSE 250
          IN /\ \A i \in 0..(k - 1) :
                   subSteps'[n + 1 + i].position = Pos(50 + (n + i) * spacing, 50)
             /\ \A i \in 0..(k - 1), j \in 0..(k - 1) :
                   i # j => subSteps'[n + 1 + i].position
                              # subSteps'[n + 1 + j].position ]_vars

\* C29: in part_000 only Save calls onUpdateTask: a Save calls it once, with
\* task.id and the details as they are, and calls onClose; every other step,
\* the header's X and Cancel among them, calls it not at all; X and Cancel
\* call onClose.
C29_OnlySaveReports ==
    [][ variant = "legacy" =>
          /\ lastOp'.op = "save" =>
                /\ updateCalls' = updateCalls + 1
                /\ saved' = << [taskId |-> TaskId,
                                updates |-> [subSteps |-> subSteps,
                                             subStepCanvasSize |-> canvasSize]] >>
                /\ closed'
          /\ lastOp'.op # "save" =>
                /\ updateCalls' = updateCalls
                /\ saved' = saved
          /\ lastOp'.op = "close" => closed' ]_vars

\* a node was added to A -> B -> C, moved by auto-layout, and saved
C29_Witness ==
    /\ variant = "legacy"
    /\ lastOp.op = "save"
    /\ closed
    /\ updateCalls = 1
    /\ Len(subSteps) = 4
    /\ subSteps[4].position = Pos(50, 200)
    /\ saved[1].updates.subSteps = subSteps

\* C30: at most one panel is maximized at a time (maximizedPanel is null or
\* one panel), and whenever a panel is maximized the three-column view
\* (maximizedPanel = null) comes back if the user keeps using the controls
\* the modal shows.
C30_GridComesBack ==
    /\ [](maximizedPanel \in Panels \cup {"null"})
    /\ (maximizedPanel # "null") ~> (maximizedPanel = "null")

====
